---------------------------- MODULE Spec2Model ----------------------------
(***************************************************************************)
(* Forward and conditional committors of a Markov state model              *)
(* (Mixtape/tpt/committor.py).                                             *)
(*                                                                         *)
(* The two entry points, committors and conditional_committors, are pure   *)
(* functions of their arguments and of the caller's chain (msm.n_states_,  *)
(* msm.transmat_).  A call is one action: it evaluates the whole function  *)
(* body and records what the caller observes (the returned vector or the   *)
(* exception raised) together with the locals the properties speak about   *)
(* (the linear system handed to np.linalg.solve, the permutation, the      *)
(* absorption matrix B).  Return discards the frame.                       *)
(*                                                                         *)
(* Numbers are exact rationals <<numerator, denominator>> in lowest terms: *)
(* the dense solve is Gaussian elimination with partial pivoting (what     *)
(* LAPACK gesv behind np.linalg.solve / np.linalg.inv performs), carried   *)
(* out without rounding.  State ids are 0 .. n_states-1 as in the source;  *)
(* vectors and matrices are functions on that range.                       *)
(***************************************************************************)
EXTENDS Integers, Sequences, FiniteSets, TLC

VARIABLES
    chain,      \* the caller's msm: [n_states_, transmat_]
    pc,         \* "idle": no call in progress; "returned": a call has ended
    op,         \* the entry point last called
    args,       \* its arguments
    exc,        \* the exception it raised, "none" if it returned
    ret,        \* the vector it returned (<<>> if it raised)
    steps,      \* the numerical steps the call reached, in order
    lhs,        \* coefficient matrix handed to np.linalg.solve in committors
    rhs,        \* right-hand side handed to np.linalg.solve in committors
    fwd,        \* forward_committors inside conditional_committors
    order,      \* perm inside conditional_committors
    Bmat        \* B inside conditional_committors

vars == <<chain, pc, op, args, exc, ret, steps, lhs, rhs, fwd, order, Bmat>>

-----------------------------------------------------------------------------
(* Bounds of the model *)

MaxStates == 4      \* generated chains have 3 .. MaxStates states
MaxBoundary == 3    \* sources and sinks together hold at most MaxBoundary indices

-----------------------------------------------------------------------------
(* Exact rational arithmetic *)

\* A function constructor is a value; TLC builds it on first comparison, so
\* Dense(f) = f is f held as an explicit table.
Dense(f) == CHOOSE g \in {f} : g = f

Abs(x) == IF x < 0 THEN -x ELSE x

RECURSIVE Gcd(_, _)
Gcd(a, b) == IF b = 0 THEN a ELSE Gcd(b, a % b)

Rat(p, q) ==
    LET g == Gcd(Abs(p), Abs(q))
        s == IF q < 0 THEN -1 ELSE 1
    IN  <<(s * p) \div g, (s * q) \div g>>

Zero == <<0, 1>>
One == <<1, 1>>

RAdd(a, b) == Rat(a[1] * b[2] + b[1] * a[2], a[2] * b[2])
RSub(a, b) == Rat(a[1] * b[2] - b[1] * a[2], a[2] * b[2])
RMul(a, b) == Rat(a[1] * b[1], a[2] * b[2])
RDiv(a, b) == Rat(a[1] * b[2], a[2] * b[1])
RAbs(a) == <<Abs(a[1]), a[2]>>
RLess(a, b) == a[1] * b[2] < b[1] * a[2]
RLeq(a, b) == a[1] * b[2] <= b[1] * a[2]

States(n) == 0 .. (n - 1)

\* sum of f[j] for j in lo .. hi-1
RECURSIVE RSum(_, _, _)
RSum(f, lo, hi) == IF lo >= hi THEN Zero ELSE RAdd(f[lo], RSum(f, lo + 1, hi))

\* np.eye(n)
Eye(n) == [i \in States(n) |-> [j \in States(n) |-> IF i = j THEN One ELSE Zero]]

\* np.dot(M, v) for M with rows on States(m) and v of length n
MatVec(M, v, m, n) ==
    [i \in States(m) |-> RSum([j \in States(n) |-> RMul(M[i][j], v[j])], 0, n)]


-----------------------------------------------------------------------------
(* numpy primitives *)

\* numpy integer indexing into an axis of length n: an index in -n .. n-1 is
\* accepted and a negative one counts from the end; any other raises IndexError.
InBounds(i, n) == -n <= i /\ i < n
Index(i, n) == IF i < 0 THEN i + n ELSE i

Range(s) == {s[k] : k \in DOMAIN s}

\* row of the first entry of largest magnitude in column k at or below the diagonal
PivotRow(M, k, n) ==
    CHOOSE p \in k .. (n - 1) :
        /\ \A i \in k .. (n - 1) : RLeq(RAbs(M[i][k]), RAbs(M[p][k]))
        /\ \A i \in k .. (p - 1) : RLess(RAbs(M[i][k]), RAbs(M[p][k]))

\* forward elimination with row interchanges on the augmented matrix M
\* (rows 0..n-1, columns 0..n); <<>> when a pivot column is zero
RECURSIVE Eliminate(_, _, _)
Eliminate(M, k, n) ==
    IF k = n THEN M
    ELSE LET p == PivotRow(M, k, n)
         IN  IF M[p][k] = Zero THEN <<>>
             ELSE LET S == [i \in States(n) |->
                              IF i = k THEN M[p] ELSE IF i = p THEN M[k] ELSE M[i]]
                      E == [i \in States(n) |->
                              IF i <= k THEN S[i]
                              ELSE LET f == RDiv(S[i][k], S[k][k])
                                   IN  [j \in 0 .. n |-> RSub(S[i][j], RMul(f, S[k][j]))]]
                  IN  Eliminate(Dense(E), k + 1, n)

\* back substitution on the eliminated augmented matrix U
RECURSIVE BackSubstitute(_, _, _, _)
BackSubstitute(U, i, n, x) ==
    IF i < 0 THEN x
    ELSE LET tail == RSum([j \in States(n) |-> IF j > i THEN RMul(U[i][j], x[j]) ELSE Zero], 0, n)
             xi == RDiv(RSub(U[i][n], tail), U[i][i])
         IN  BackSubstitute(U, i - 1, n, Dense([x EXCEPT ![i] = xi]))

\* np.linalg.solve(A, b) for an n x n matrix A: the x with A.x = b, or
\* LinAlgError ("Singular matrix") when elimination meets a zero pivot column
Solve(A, b, n) ==
    LET M == [i \in States(n) |-> [j \in 0 .. n |-> IF j = n THEN b[i] ELSE A[i][j]]]
        U == Eliminate(Dense(M), 0, n)
    IN  IF n > 0 /\ U = <<>>
        THEN [ok |-> FALSE, x |-> <<>>]
        ELSE [ok |-> TRUE, x |-> BackSubstitute(U, n - 1, n, [i \in States(n) |-> Zero])]

\* np.linalg.inv(A) for an n x n matrix A (the solve of A.X = I); the inverse
\* of the 0 x 0 matrix is the 0 x 0 matrix
Inv(A, n) ==
    LET col == [j \in States(n) |-> Solve(A, Eye(n)[j], n)]
    IN  IF \E j \in States(n) : ~col[j].ok
        THEN [ok |-> FALSE, x |-> <<>>]
        ELSE [ok |-> TRUE, x |-> [i \in States(n) |-> [j \in States(n) |-> col[j].x[i]]]]

\* np.argsort(p) for a sequence p on 0..len-1: entry k is the position of the
\* k-th smallest element of p (equal elements keep their order)
ArgSort(p, len) ==
    [k \in States(len) |->
        CHOOSE pos \in States(len) :
            Cardinality({x \in States(len) :
                            p[x] < p[pos] \/ (p[x] = p[pos] /\ x < pos)}) = k]

\* a Python list (1-based TLA+ sequence) as a 0-based array
AsArray(s) == [k \in States(Len(s)) |-> s[k + 1]]

-----------------------------------------------------------------------------
(* committors(sources, sinks, msm), lines 48-104 *)

\* SetBoundary without lhs[:, a] = 0.0
SetBoundaryRowOnly(L, a, n) ==
    LET k == Index(a, n)
    IN  [i \in States(n) |-> [j \in States(n) |->
            IF i = k THEN (IF j = k THEN One ELSE Zero) ELSE L[i][j]]]

\* SetBoundary without lhs[a, a] = 1.0
SetBoundaryNoDiagonal(L, a, n) ==
    LET k == Index(a, n)
    IN  [i \in States(n) |-> [j \in States(n) |->
            IF i = k \/ j = k THEN Zero ELSE L[i][j]]]

\* lhs[a, :] = 0.0; lhs[:, a] = 0.0; lhs[a, a] = 1.0
SetBoundary(L, a, n) ==
    LET k == Index(a, n)
    IN  [i \in States(n) |-> [j \in States(n) |->
            IF i = k /\ j = k THEN One
            ELSE IF i = k \/ j = k THEN Zero
            ELSE L[i][j]]]

\* the loop "for a in idxs: ..." over lhs
RECURSIVE ApplyBoundary(_, _, _)
ApplyBoundary(L, idxs, n) ==
    IF idxs = <<>> THEN L
    ELSE ApplyBoundary(Dense(SetBoundary(L, Head(idxs), n)), Tail(idxs), n)

\* Lhs without the loop over sinks
LhsSourcesOnly(sources, sinks, n, tprob) ==
    LET lhs0 == [i \in States(n) |-> [j \in States(n) |-> RSub(Eye(n)[i][j], tprob[i][j])]]
    IN  ApplyBoundary(Dense(lhs0), sources, n)

\* lhs as handed to the solver
Lhs(sources, sinks, n, tprob) ==
    LET lhs0 == [i \in States(n) |-> [j \in States(n) |-> RSub(Eye(n)[i][j], tprob[i][j])]]
    IN  ApplyBoundary(ApplyBoundary(Dense(lhs0), sources, n), sinks, n)

\* IdentSinks without ident_sinks[sinks] = 1.0
IdentSinksAllZero(sinks, n) == [j \in States(n) |-> Zero]

\* ident_sinks = np.zeros(n_states); ident_sinks[sinks] = 1.0
IdentSinks(sinks, n) ==
    [j \in States(n) |-> IF \E b \in Range(sinks) : Index(b, n) = j THEN One ELSE Zero]

\* Rhs without line 100 (rhs[sinks] = 1.0)
RhsSinksNotPinned(sources, sinks, n, tprob) ==
    LET rhs0 == MatVec(tprob, IdentSinks(sinks, n), n, n)
    IN  [i \in States(n) |->
            IF \E a \in Range(sources) : Index(a, n) = i THEN Zero ELSE rhs0[i]]

\* rhs = np.dot(tprob, ident_sinks); rhs[sources] = 0.0; rhs[sinks] = 1.0
Rhs(sources, sinks, n, tprob) ==
    LET rhs0 == MatVec(tprob, IdentSinks(sinks, n), n, n)
    IN  [i \in States(n) |->
            IF \E b \in Range(sinks) : Index(b, n) = i THEN One
            ELSE IF \E a \in Range(sources) : Index(a, n) = i THEN Zero
            ELSE rhs0[i]]

\* lhs shares its buffer with msm.transmat_ (an in-place subtraction at line 83)
lhs_written_in_place == TRUE

\* Line 83 builds lhs as the value of np.eye(n_states) - tprob, a new array:
\* the writes of lines 86-93 go to it and not to msm.transmat_.
lhs_aliases_transmat == FALSE

\* The outcome of a call: the exception raised ("none" if it returned), the
\* returned vector q, the steps reached, the system handed to the solver and
\* the caller's chain as the call leaves it.
committors(sources, sinks, msm) ==
    LET n == msm.n_states_
        tprob == msm.transmat_
        L == Dense(Lhs(sources, sinks, n, tprob))
        r == Dense(Rhs(sources, sinks, n, tprob))
        sol == Solve(L, r, n)
        after == IF lhs_aliases_transmat THEN [msm EXCEPT !.transmat_ = L] ELSE msm
    IN  IF \E a \in Range(sources) \cup Range(sinks) : ~InBounds(a, n)
        THEN [exc |-> "IndexError", q |-> <<>>, steps |-> <<>>,
              lhs |-> <<>>, rhs |-> <<>>, msm |-> msm]
        ELSE IF ~sol.ok
        THEN [exc |-> "LinAlgError", q |-> <<>>, steps |-> <<"solve">>,
              lhs |-> L, rhs |-> r, msm |-> after]
        ELSE [exc |-> "none", q |-> sol.x, steps |-> <<"solve">>,
              lhs |-> L, rhs |-> r, msm |-> after]

-----------------------------------------------------------------------------
(* conditional_committors(source, sink, waypoint, msm), lines 107-196 *)

\* Python argument values: a type tag and a number; == compares the numbers
PyInt(v) == [type |-> "int", val |-> v]
PyFloat(v) == [type |-> "float", val |-> v]

\* perm: the states not in Bsink_indices in increasing order, then Bsink_indices
Perm(Bsink_indices, n) ==
    LET RECURSIVE Others(_)
        Others(i) == IF i >= n THEN <<>>
                     ELSE IF i \in Range(Bsink_indices) THEN Others(i + 1)
                     ELSE <<i>> \o Others(i + 1)
    IN  Others(0) \o Bsink_indices

\* tprob[perm, :][:, perm]
Permuted(tprob, perm, n) ==
    LET len == Len(perm)
        p == AsArray(perm)
    IN  [i \in States(len) |-> [j \in States(len) |->
            tprob[Index(p[i], n)][Index(p[j], n)]]]

\* B = np.dot(np.linalg.inv(np.eye(m) - P), R) with P = permuted_tprob[:m, :m]
\* and R = permuted_tprob[:m, m:], for 0 <= m <= len (the side of permuted_tprob)
Absorption(permuted_tprob, m, len) ==
    LET P == [i \in States(m) |-> [j \in States(m) |-> permuted_tprob[i][j]]]
        R == [i \in States(m) |-> [j \in States(len - m) |-> permuted_tprob[i][j + m]]]
        IminusP == [i \in States(m) |-> [j \in States(m) |-> RSub(Eye(m)[i][j], P[i][j])]]
        N == Inv(Dense(IminusP), m)
    IN  IF ~N.ok THEN [ok |-> FALSE, B |-> <<>>]
        ELSE [ok |-> TRUE,
              B |-> [i \in States(m) |-> [j \in States(len - m) |->
                        RSum([k \in States(m) |-> RMul(N.x[i][k], R[k][j])], 0, m)]]]

\* AppendBoundary taking B[:, 0], the column of the source
AppendBoundaryFirstColumn(B, m, w) ==
    [i \in States(m + 3) |->
        IF i < m THEN B[i][0]
        ELSE IF i = m + 2 THEN One ELSE Zero]

\* b = np.append(B[:, -1].flatten(), [0.0] * (len(Bsink_indices) - 1) + [1.0])
\* for B with m rows and w columns
AppendBoundary(B, m, w) ==
    [i \in States(m + 3) |->
        IF i < m THEN B[i][w - 1]
        ELSE IF i = m + 2 THEN One ELSE Zero]

\* cond_committors[perm]: the permutation applied again instead of inverted
ReorderForward(cond, perm) ==
    [i \in States(Len(perm)) |-> cond[perm[i + 1]]]

\* cond_committors[np.argsort(perm)] for cond_committors of length n
Reorder(cond, perm) ==
    LET len == Len(perm)
        inverse == ArgSort(AsArray(perm), len)
    IN  [i \in States(len) |-> cond[inverse[i]]]

\* what a call of conditional_committors leaves behind when it has done nothing yet
Entered(msm) ==
    [exc |-> "none", c |-> <<>>, steps |-> <<>>, lhs |-> <<>>, rhs |-> <<>>,
     fwd |-> <<>>, perm |-> <<>>, B |-> <<>>, msm |-> msm]

\* lines 189-196, given the forward call fc (returned) and the absorption ab (computed)
Assemble(ab, fc, perm, w, n) ==
    LET len == Len(perm)
        m == n - 3
        b == AppendBoundary(ab.B, m, len - m)
        cond == [i \in States(m + 3) |-> RMul(b[i], fc.q[Index(w, n)])]
        done == [Entered(fc.msm) EXCEPT
                    !.steps = fc.steps \o <<"permute", "inv", "argsort">>,
                    !.lhs = fc.lhs, !.rhs = fc.rhs, !.fwd = fc.q,
                    !.perm = perm, !.B = ab.B]
    IN  IF len > n
        THEN [done EXCEPT !.exc = "IndexError"]
        ELSE [done EXCEPT !.c = Reorder(cond, perm)]

\* lines 187-196, given the forward call fc (returned) and the outcome ab of line 187
Absorb(ab, fc, perm, w, n) ==
    IF ~ab.ok
    THEN [Entered(fc.msm) EXCEPT
            !.exc = "LinAlgError", !.steps = fc.steps \o <<"permute", "inv">>,
            !.lhs = fc.lhs, !.rhs = fc.rhs, !.fwd = fc.q, !.perm = perm]
    ELSE Assemble(ab, fc, perm, w, n)

\* lines 172-196, given the outcome fc of committors([source], [sink], msm)
Permute(fc, s, k, w, msm) ==
    LET n == msm.n_states_
        Bsink_indices == <<s, k, w>>
        perm == Perm(Bsink_indices, n)
        m == n - Len(Bsink_indices)
    IN  IF fc.exc # "none"
        THEN [Entered(fc.msm) EXCEPT
                !.exc = fc.exc, !.steps = fc.steps, !.lhs = fc.lhs, !.rhs = fc.rhs]
        ELSE IF ~InBounds(w, n)
        THEN [Entered(fc.msm) EXCEPT
                !.exc = "IndexError", !.steps = fc.steps \o <<"permute">>,
                !.lhs = fc.lhs, !.rhs = fc.rhs, !.fwd = fc.q, !.perm = perm]
        ELSE Absorb(Absorption(Dense(Permuted(msm.transmat_, perm, n)), m, Len(perm)),
                    fc, perm, w, n)

\* conditional_committors whose line 166 does not compare sink with source
conditional_committors_no_sink_check(source, sink, waypoint, msm) ==
    IF \E data \in {source, sink, waypoint} : data.type # "int"
    THEN [Entered(msm) EXCEPT !.exc = "ValueError"]
    ELSE IF source.val = waypoint.val \/ sink.val = waypoint.val
    THEN [Entered(msm) EXCEPT !.exc = "ValueError"]
    ELSE Permute(committors(<<source.val>>, <<sink.val>>, msm),
                 source.val, sink.val, waypoint.val, msm)

conditional_committors(source, sink, waypoint, msm) ==
    IF \E data \in {source, sink, waypoint} : data.type # "int"
    THEN [Entered(msm) EXCEPT !.exc = "ValueError"]
    ELSE IF source.val = waypoint.val \/ sink.val = waypoint.val \/ sink.val = source.val
    THEN [Entered(msm) EXCEPT !.exc = "ValueError"]
    ELSE Permute(committors(<<source.val>>, <<sink.val>>, msm),
                 source.val, sink.val, waypoint.val, msm)

-----------------------------------------------------------------------------
(* The caller's chains and arguments *)

\* hop distributions <<left, stay, right>> of a non-absorbing state of a ring
Symmetric == << <<1, 2>>, <<0, 1>>, <<1, 2>> >>
Lazy == << <<2, 5>>, <<1, 5>>, <<2, 5>> >>
Biased == << <<1, 4>>, <<1, 4>>, <<1, 2>> >>

\* Row-stochastic chain on a ring of n >= 3 states: a state of A stays put, any
\* other state i hops to i-1, i, i+1 (mod n) with the profile's probabilities.
RingChain(n, prof, A) ==
    [n_states_ |-> n,
     transmat_ |->
        [i \in States(n) |-> [j \in States(n) |->
            IF i \in A THEN (IF j = i THEN One ELSE Zero)
            ELSE IF j = (i + n - 1) % n THEN prof[1]
            ELSE IF j = i THEN prof[2]
            ELSE IF j = (i + 1) % n THEN prof[3]
            ELSE Zero]]]

\* Row-stochastic chain of n states in which state i jumps to each state j # i
\* with probability proportional to j + 1; the states of A stay put.
WeightedChain(n, A) ==
    [n_states_ |-> n,
     transmat_ |->
        [i \in States(n) |-> [j \in States(n) |->
            IF i \in A THEN (IF j = i THEN One ELSE Zero)
            ELSE IF j = i THEN Zero
            ELSE Rat(j + 1, (n * (n + 1)) \div 2 - (i + 1))]]]

\* Row-stochastic chain of n states in which states 0 and 1 only exchange with
\* each other (a closed class without an absorbing state) and every other
\* state jumps as in WeightedChain.
ClosedPairChain(n) ==
    [n_states_ |-> n,
     transmat_ |->
        [i \in States(n) |-> [j \in States(n) |->
            IF i \in {0, 1} THEN (IF j \in {0, 1} THEN <<1, 2>> ELSE Zero)
            ELSE WeightedChain(n, {}).transmat_[i][j]]]]

\* 5-state linear chain, endpoints absorbing, hop probability 1/2 left and right
LinearChain5 ==
    [n_states_ |-> 5,
     transmat_ |->
        [i \in States(5) |-> [j \in States(5) |->
            IF i \in {0, 4} THEN (IF j = i THEN One ELSE Zero)
            ELSE IF j = i - 1 \/ j = i + 1 THEN <<1, 2>> ELSE Zero]]]

\* 3-state chain, states 0 and 2 absorbing, row 1 = [0.4, 0.2, 0.4]
GamblersRuin3 ==
    [n_states_ |-> 3,
     transmat_ |->
        [i \in States(3) |-> [j \in States(3) |->
            IF i \in {0, 2} THEN (IF j = i THEN One ELSE Zero)
            ELSE IF j = 1 THEN <<1, 5>> ELSE <<2, 5>>]]]

\* the chains of n states the caller may hold
ChainsOf(n) ==
    { RingChain(n, Symmetric, {0, n - 1}),
      RingChain(n, Lazy, {0, n - 1}),
      RingChain(n, Biased, {}),
      WeightedChain(n, {}),
      WeightedChain(n, {0, 2}),
      ClosedPairChain(n) }

Chains == UNION {ChainsOf(n) : n \in 3 .. MaxStates} \cup {LinearChain5, GamblersRuin3}

\* the indices a caller may pass for a chain of n states: every state, one
\* index past the end, and -1
Idx(n) == -1 .. n

\* index lists of at most maxLen entries, given in non-decreasing order (the
\* loops of lines 85-93 and the assignments of lines 96-100 treat each entry
\* alike, whatever its place in the list)
IndexLists(n, maxLen) ==
    {l \in UNION {[1 .. len -> Idx(n)] : len \in 0 .. maxLen} :
        \A k \in 1 .. (Len(l) - 1) : l[k] <= l[k + 1]}

\* scalar arguments of conditional_committors: the ints of Idx(n) and a float
Scalars(n) == {PyInt(i) : i \in Idx(n)} \cup {PyFloat(0)}

RowStochastic(m) ==
    \A i \in States(m.n_states_) :
        /\ \A j \in States(m.n_states_) :
              RLeq(Zero, m.transmat_[i][j]) /\ RLeq(m.transmat_[i][j], One)
        /\ RSum(m.transmat_[i], 0, m.n_states_) = One

-----------------------------------------------------------------------------
(* The state machine *)

NoCall ==
    /\ pc = "idle"
    /\ op = "none"
    /\ args = <<>>
    /\ exc = "none"
    /\ ret = <<>>
    /\ steps = <<>>
    /\ lhs = <<>>
    /\ rhs = <<>>
    /\ fwd = <<>>
    /\ order = <<>>
    /\ Bmat = <<>>

Init ==
    /\ chain \in Chains
    /\ NoCall

\* q = committors(sources, sinks, chain)
Committors ==
    /\ pc = "idle"
    /\ \E sources \in IndexLists(chain.n_states_, MaxBoundary) :
          \E sinks \in IndexLists(chain.n_states_, MaxBoundary - Len(sources)) :
             LET r == committors(sources, sinks, chain)
             IN  /\ chain' = r.msm
                 /\ pc' = "returned"
                 /\ op' = "committors"
                 /\ args' = <<sources, sinks>>
                 /\ exc' = r.exc
                 /\ ret' = r.q
                 /\ steps' = r.steps
                 /\ lhs' = r.lhs
                 /\ rhs' = r.rhs
                 /\ UNCHANGED <<fwd, order, Bmat>>

\* c = conditional_committors(source, sink, waypoint, chain)
ConditionalCommittors ==
    /\ pc = "idle"
    /\ \E source \in Scalars(chain.n_states_), sink \in Scalars(chain.n_states_),
          waypoint \in Scalars(chain.n_states_) :
          LET r == conditional_committors(source, sink, waypoint, chain)
          IN  /\ chain' = r.msm
              /\ pc' = "returned"
              /\ op' = "conditional_committors"
              /\ args' = <<source, sink, waypoint>>
              /\ exc' = r.exc
              /\ ret' = r.c
              /\ steps' = r.steps
              /\ lhs' = r.lhs
              /\ rhs' = r.rhs
              /\ fwd' = r.fwd
              /\ order' = r.perm
              /\ Bmat' = r.B

\* the caller takes the result; the call's locals are gone
Return ==
    /\ pc = "returned"
    /\ pc' = "idle"
    /\ op' = "none"
    /\ args' = <<>>
    /\ exc' = "none"
    /\ ret' = <<>>
    /\ steps' = <<>>
    /\ lhs' = <<>>
    /\ rhs' = <<>>
    /\ fwd' = <<>>
    /\ order' = <<>>
    /\ Bmat' = <<>>
    /\ UNCHANGED chain

Next == Committors \/ ConditionalCommittors \/ Return

Spec == Init /\ [][Next]_vars

-----------------------------------------------------------------------------
(* Vocabulary of the properties *)

nStates == chain.n_states_
Tm == chain.transmat_

ReturnedFrom(f) == pc = "returned" /\ op = f

\* the arguments of the last call
Sources == Range(args[1])
Sinks == Range(args[2])
SourceArg == args[1]
SinkArg == args[2]
WaypointArg == args[3]

IsState(i) == 0 <= i /\ i < nStates

\* committors was called with in-range indices
InRangeCall == \A i \in Sources \cup Sinks : IsState(i)

\* ... and no index is both a source and a sink
ValidCall == InRangeCall /\ Sources \cap Sinks = {}

\* the states the call pins, negative indices counted from the end as numpy does
PinnedOne == {Index(b, nStates) : b \in Sinks}
PinnedZero == {Index(a, nStates) : a \in Sources} \ PinnedOne
Pinned == PinnedOne \cup PinnedZero

UnitRow(k) == [j \in States(nStates) |-> IF j = k THEN One ELSE Zero]

\* conditional_committors was called with three distinct ints that are states
DistinctStatesCall ==
    /\ \A x \in {SourceArg, SinkArg, WaypointArg} : x.type = "int" /\ IsState(x.val)
    /\ SourceArg.val # SinkArg.val
    /\ SourceArg.val # WaypointArg.val
    /\ SinkArg.val # WaypointArg.val

TypeOK ==
    /\ pc \in {"idle", "returned"}
    /\ op \in {"none", "committors", "conditional_committors"}
    /\ exc \in {"none", "ValueError", "IndexError", "LinAlgError"}
    /\ chain \in Chains /\ RowStochastic(chain)
    /\ pc = "idle" => NoCall
    /\ exc # "none" => ret = <<>>
    /\ (pc = "returned" /\ exc = "none") => DOMAIN ret = States(nStates)

-----------------------------------------------------------------------------
(* C1 *)

\* C1: whenever committors returns q for disjoint in-range sources and sinks,
\* q[a] = 0 for every source a and q[b] = 1 for every sink b, exactly; the row
\* of the coefficient matrix at each of them is the unit row and the right-hand
\* side there is the pinned value.
C1_BoundaryValuesPinned ==
    (ReturnedFrom("committors") /\ exc = "none" /\ ValidCall) =>
        /\ \A a \in Sources : ret[a] = Zero /\ lhs[a] = UnitRow(a) /\ rhs[a] = Zero
        /\ \A b \in Sinks : ret[b] = One /\ lhs[b] = UnitRow(b) /\ rhs[b] = One

\* a returned call with two sources, a sink that is not absorbing in the
\* chain, and a state left to solve for
C1_Witness ==
    /\ ReturnedFrom("committors") /\ exc = "none" /\ ValidCall
    /\ Cardinality(Sources) = 2
    /\ \E b \in Sinks : Tm[b][b] # One
    /\ \E i \in States(nStates) \ Pinned : ret[i] \notin {Zero, One}

-----------------------------------------------------------------------------
(* C2 *)

TwoCoincide ==
    \/ SourceArg.val = WaypointArg.val
    \/ SinkArg.val = WaypointArg.val
    \/ SinkArg.val = SourceArg.val

\* C2: conditional_committors raises ValueError whenever two of source, sink,
\* waypoint are equal, on every chain; it does so before the forward solve,
\* the permutation and the inversion, and returns no vector.
C2_CoincidingIndicesRejected ==
    (ReturnedFrom("conditional_committors") /\ TwoCoincide) =>
        /\ exc = "ValueError"
        /\ steps = <<>>
        /\ ret = <<>> /\ lhs = <<>> /\ rhs = <<>> /\ fwd = <<>> /\ order = <<>> /\ Bmat = <<>>

\* a call with int states where only sink and source coincide has ended
C2_Witness ==
    /\ ReturnedFrom("conditional_committors")
    /\ \A x \in {SourceArg, SinkArg, WaypointArg} : x.type = "int" /\ IsState(x.val)
    /\ SinkArg.val = SourceArg.val
    /\ WaypointArg.val # SourceArg.val
    /\ exc = "ValueError"

-----------------------------------------------------------------------------
(* C3 *)

\* C3: whenever conditional_committors returns c for pairwise-distinct states
\* source, sink, waypoint of a chain with at least 3 states, c[source] = 0,
\* c[sink] = 0 and c[waypoint] = committors([source], [sink], chain)[waypoint].
C3_BoundaryEntries ==
    (/\ ReturnedFrom("conditional_committors") /\ exc = "none"
     /\ DistinctStatesCall /\ nStates >= 3) =>
        /\ ret[SourceArg.val] = Zero
        /\ ret[SinkArg.val] = Zero
        /\ ret[WaypointArg.val] =
              committors(<<SourceArg.val>>, <<SinkArg.val>>, chain).q[WaypointArg.val]

\* a returned call on a 3-state chain (no transient state) whose ordering is
\* neither the identity nor its own inverse and whose waypoint entry is not 0
C3_Witness ==
    /\ ReturnedFrom("conditional_committors") /\ exc = "none" /\ DistinctStatesCall
    /\ nStates = 3
    /\ order = <<1, 2, 0>>
    /\ ret[WaypointArg.val] \notin {Zero, One}

-----------------------------------------------------------------------------
(* C4 *)

\* the source and sink indices handed to committors by the last call
SuppliedIndices ==
    IF op = "committors" THEN Sources \cup Sinks
    ELSE IF op = "conditional_committors" THEN {SourceArg.val, SinkArg.val}
    ELSE {}

\* the last call reached committors (conditional_committors does so once its
\* own argument checks have passed)
ReachedCommittors ==
    \/ ReturnedFrom("committors")
    \/ /\ ReturnedFrom("conditional_committors")
       /\ \A x \in {SourceArg, SinkArg, WaypointArg} : x.type = "int"
       /\ ~TwoCoincide

\* C4: a source or sink index outside [0, n_states), too large or negative,
\* is rejected with an out-of-range error before the linear system is solved,
\* and no vector is returned.
C4_OutOfRangeRejected ==
    (ReachedCommittors /\ \E i \in SuppliedIndices : ~IsState(i)) =>
        /\ exc = "IndexError"
        /\ steps = <<>>
        /\ ret = <<>>

-----------------------------------------------------------------------------
(* C5 *)

\* C5: no call of committors or conditional_committors, returning or raising,
\* changes the caller's chain (transition matrix and n_states).
C5_ChainNeverMutated == [][chain' = chain]_vars

\* a conditional_committors call has run to its end: the row of a state that is
\* not absorbing in the chain was overwritten in lhs, the matrix was permuted
\* and its blocks taken
C5_Witness ==
    /\ ReturnedFrom("conditional_committors") /\ exc = "none"
    /\ \E i \in States(nStates) : lhs[i] = UnitRow(i) /\ Tm[i] # UnitRow(i)
    /\ Bmat # <<>>

-----------------------------------------------------------------------------
(* C6 *)

\* C6: on the 5-state linear chain, committors([0], [4]) returns
\* [0, 1/4, 1/2, 3/4, 1]; on the 3-state chain with row 1 = [0.4, 0.2, 0.4],
\* committors([0], [2]) returns [0, 1/2, 1].
C6_GamblersRuin ==
    /\ (ReturnedFrom("committors") /\ chain = LinearChain5 /\ args = << <<0>>, <<4>> >>) =>
          /\ exc = "none"
          /\ ret = (0 :> Zero @@ 1 :> <<1, 4>> @@ 2 :> <<1, 2>> @@ 3 :> <<3, 4>> @@ 4 :> One)
    /\ (ReturnedFrom("committors") /\ chain = GamblersRuin3 /\ args = << <<0>>, <<2>> >>) =>
          /\ exc = "none"
          /\ ret = (0 :> Zero @@ 1 :> <<1, 2>> @@ 2 :> One)

\* the call on the 5-state linear chain has ended
C6_Witness ==
    ReturnedFrom("committors") /\ chain = LinearChain5 /\ args = << <<0>>, <<4>> >>

-----------------------------------------------------------------------------
(* C7 *)

-----------------------------------------------------------------------------
(* C8 *)

\* determinant of the rows r .. n-1 of M over the columns cols (expansion
\* along row r)
RECURSIVE Det(_, _, _, _)
Det(M, r, cols, n) ==
    IF cols = {} THEN One
    ELSE RSum([c \in States(n) |->
                  IF c \notin cols \/ M[r][c] = Zero THEN Zero
                  ELSE LET minor == RMul(M[r][c], Det(M, r + 1, cols \ {c}, n))
                       IN  IF Cardinality({d \in cols : d < c}) % 2 = 0
                           THEN minor ELSE RSub(Zero, minor)],
              0, n)

Singular(M) == Det(M, 0, States(nStates), nStates) = Zero

\* the states a walker can be in after any number of jumps from a state of S
RECURSIVE Reachable(_)
Reachable(S) ==
    LET next == S \cup {j \in States(nStates) : \E i \in S : Tm[i][j] # Zero}
    IN  IF next = S THEN S ELSE Reachable(next)

\* some state that is neither source nor sink has no path to a source or sink
TrappedState ==
    \E i \in States(nStates) \ Pinned : Reachable({i}) \cap Pinned = {}

RepeatedIndex ==
    Len(args[1]) > Cardinality(Sources) \/ Len(args[2]) > Cardinality(Sinks)

-----------------------------------------------------------------------------
(* C9 *)

\* C9: the system (L, r) handed to the solver is the one of I - T and
\* T . 1_sinks with the sources, then the sinks, pinned: at a boundary index k,
\* row k and column k of L are zero but for L[k,k] = 1, and r[k] is 0 for a
\* source and 1 for a sink; at non-boundary i, L[i,j] = [i = j] - T[i,j] for
\* non-boundary j and r[i] is the sum of T[i,b] over the sinks b.  A returned q
\* therefore satisfies q[i] = sum_j T[i,j] q[j] at every non-boundary state i.
C9_SystemAndRecurrence ==
    (ReturnedFrom("committors") /\ lhs # <<>>) =>
        /\ \A k \in Pinned :
              /\ lhs[k] = UnitRow(k)
              /\ \A i \in States(nStates) : lhs[i][k] = UnitRow(k)[i]
              /\ rhs[k] = IF k \in PinnedOne THEN One ELSE Zero
        /\ \A i \in States(nStates) \ Pinned :
              /\ \A j \in States(nStates) \ Pinned :
                    lhs[i][j] = RSub(UnitRow(i)[j], Tm[i][j])
              /\ rhs[i] = RSum([b \in States(nStates) |->
                                   IF b \in PinnedOne THEN Tm[i][b] ELSE Zero], 0, nStates)
        /\ exc = "none" =>
              \A i \in States(nStates) \ Pinned :
                  ret[i] = RSum([j \in States(nStates) |-> RMul(Tm[i][j], ret[j])], 0, nStates)

\* a returned call with a source, a sink and two non-boundary states, one of
\* which jumps to the source, to the sink and to the other non-boundary state
C9_Witness ==
    /\ ReturnedFrom("committors") /\ exc = "none" /\ ValidCall
    /\ \E a \in Sources, b \in Sinks, i, j \in States(nStates) \ Pinned :
          /\ i # j
          /\ Tm[i][a] # Zero /\ Tm[i][b] # Zero /\ Tm[i][j] # Zero

-----------------------------------------------------------------------------
(* C10 *)

\* the states that are none of source, sink, waypoint, and their number
NTransient == nStates - 3

\* C10: for pairwise-distinct states source, sink, waypoint, the ordering
\* built lists every state once: the other states in increasing order, then
\* source, sink, waypoint; B has a row per other state and three columns and
\* solves (I - P) B = R for the blocks P, R of the chain in that ordering; and
\* the returned c has, at every other state i, the waypoint column of B in the
\* row of i times committors([source], [sink], chain)[waypoint].
C10_OrderingAndAlignment ==
    (ReturnedFrom("conditional_committors") /\ exc = "none" /\ DistinctStatesCall) =>
        /\ Len(order) = nStates
        /\ Range(order) = States(nStates)
        /\ \A x \in 1 .. NTransient :
              /\ order[x] \notin {SourceArg.val, SinkArg.val, WaypointArg.val}
              /\ \A y \in 1 .. (x - 1) : order[y] < order[x]
        /\ SubSeq(order, NTransient + 1, nStates) =
              <<SourceArg.val, SinkArg.val, WaypointArg.val>>
        /\ DOMAIN Bmat = States(NTransient)
        /\ \A x \in States(NTransient) :
              /\ DOMAIN Bmat[x] = States(3)
              /\ \A j \in States(3) :
                    RSub(Bmat[x][j],
                         RSum([y \in States(NTransient) |->
                                  RMul(Tm[order[x + 1]][order[y + 1]], Bmat[y][j])],
                              0, NTransient))
                       = Tm[order[x + 1]][order[NTransient + j + 1]]
              /\ ret[order[x + 1]] = RMul(Bmat[x][2], fwd[WaypointArg.val])
        /\ fwd = committors(<<SourceArg.val>>, <<SinkArg.val>>, chain).q

\* a returned call on 5 states with the waypoint before the other two states
\* in the original ordering and source after sink, and a nonzero entry solved for
C10_Witness ==
    /\ ReturnedFrom("conditional_committors") /\ exc = "none" /\ DistinctStatesCall
    /\ order = <<2, 3, 4, 0, 1>>
    /\ ret[2] \notin {Zero, One} /\ ret[3] \notin {Zero, One} /\ ret[2] # ret[3]

=============================================================================
